---- MODULE Spec2Model ----
(***************************************************************************)
(* Model of kushmanmb-org/bitcoin:                                         *)
(*   - zkpdf_lib::verify_pdf_claim (src/zkpdf_lib/src/lib.rs)              *)
(*   - the serde_json round trip of PDFCircuitInput / PDFVerificationProof *)
(*   - the Solana zkproof program (src/solana/programs/zkproof/src/lib.rs) *)
(* Byte strings (Vec<u8>, String, &str) are sequences of byte values       *)
(* 0..255; a String is always valid UTF-8.                                 *)
(***************************************************************************)
EXTENDS Integers, Sequences, FiniteSets, TLC

VARIABLES
    input,          \* the PDFCircuitInput passed to verify_pdf_claim
    outcome,        \* what the call returned (Pending before it)
    overflow_checks,\* the build: TRUE with overflow checks (debug profile),
                    \* FALSE without (release profile)
    calls,          \* the calls of verify_pdf_claim in progress, one per caller
    value,          \* a PDFCircuitInput or PDFVerificationProof to serialize
    wire,           \* the JSON text serde_json::to_string produced
    back,           \* what serde_json::from_str made of wire
    proof_account,  \* the ProofAccount of the zkproof program
    last            \* the last instruction sent to the program and its result

vars == <<input, outcome, overflow_checks, calls, value, wire, back,
          proof_account, last>>
serdeVars == <<value, wire, back>>
verifierVars == <<input, outcome, overflow_checks>>
accountVars == <<proof_account, last>>

(***************************************************************************)
(* Bounds of the model.                                                    *)
(***************************************************************************)
\* usize::BITS scaled down: usize is 0 .. 2^WordBits - 1.
WordBits == 3
\* longest pdf_bytes drawn for a request
MaxDocLen == 3
\* longest substring drawn for a request
MaxSubLen == 3
\* number of concurrent callers of verify_pdf_claim
NCallers == 2

RECURSIVE Pow2(_)
Pow2(n) == IF n = 0 THEN 1 ELSE 2 * Pow2(n - 1)

\* usize::MAX and isize::MAX (the largest length a Vec or String can have).
USIZE_MAX == Pow2(WordBits) - 1
ISIZE_MAX == Pow2(WordBits - 1) - 1

Min(a, b) == IF a < b THEN a ELSE b

\* Byte values the requests are built from: 'a', 'b', and the three bytes of
\* U+FFFD (EF BF BD), which also serve as invalid UTF-8 when out of place.
DocBytes == {97, 98, 239, 191, 189}

\* page numbers around the limit of validate_input
Pages == {0, 10000, 10001}

BSeq(S, n) == UNION {[1..k -> S] : k \in 0..n}

(***************************************************************************)
(* UTF-8, as core::str implements it.                                      *)
(***************************************************************************)
\* core::str::validations::utf8_char_width
utf8_char_width(b) ==
    IF b < 128 THEN 1
    ELSE IF b >= 194 /\ b <= 223 THEN 2
    ELSE IF b >= 224 /\ b <= 239 THEN 3
    ELSE IF b >= 240 /\ b <= 244 THEN 4
    ELSE 0

\* byte & 0xC0 == 0x80
IsCont(b) == b >= 128 /\ b <= 191

\* safe_get of Utf8Chunks::next: 0 past the end (s is 1-based, i is 0-based)
safe_get(s, i) == IF i < Len(s) THEN s[i + 1] ELSE 0

\* the (first, second) byte pairs a 3- or 4-byte sequence may start with
SecondOk(b0, b1) ==
    \/ b0 = 224 /\ b1 >= 160 /\ b1 <= 191
    \/ b0 >= 225 /\ b0 <= 236 /\ b1 >= 128 /\ b1 <= 191
    \/ b0 = 237 /\ b1 >= 128 /\ b1 <= 159
    \/ b0 >= 238 /\ b0 <= 239 /\ b1 >= 128 /\ b1 <= 191
    \/ b0 = 240 /\ b1 >= 144 /\ b1 <= 191
    \/ b0 >= 241 /\ b0 <= 243 /\ b1 >= 128 /\ b1 <= 191
    \/ b0 = 244 /\ b1 >= 128 /\ b1 <= 143

\* One step of Utf8Chunks::next at 0-based index i: [valid, len], where len
\* is the length of the character (valid) or of the maximal invalid prefix
\* that one U+FFFD replaces.
Utf8Step(s, i) ==
    LET b0 == s[i + 1]
        w  == utf8_char_width(b0)
    IN  IF w = 1 THEN [valid |-> TRUE, len |-> 1]
        ELSE IF w = 2 THEN
            IF IsCont(safe_get(s, i + 1)) THEN [valid |-> TRUE, len |-> 2]
            ELSE [valid |-> FALSE, len |-> 1]
        ELSE IF w = 3 THEN
            IF ~SecondOk(b0, safe_get(s, i + 1)) THEN [valid |-> FALSE, len |-> 1]
            ELSE IF ~IsCont(safe_get(s, i + 2)) THEN [valid |-> FALSE, len |-> 2]
            ELSE [valid |-> TRUE, len |-> 3]
        ELSE IF w = 4 THEN
            IF ~SecondOk(b0, safe_get(s, i + 1)) THEN [valid |-> FALSE, len |-> 1]
            ELSE IF ~IsCont(safe_get(s, i + 2)) THEN [valid |-> FALSE, len |-> 2]
            ELSE IF ~IsCont(safe_get(s, i + 3)) THEN [valid |-> FALSE, len |-> 3]
            ELSE [valid |-> TRUE, len |-> 4]
        ELSE [valid |-> FALSE, len |-> 1]

\* U+FFFD REPLACEMENT CHARACTER in UTF-8
REPLACEMENT == <<239, 191, 189>>

RECURSIVE LossyFrom(_, _)
LossyFrom(s, i) ==
    IF i >= Len(s) THEN <<>>
    ELSE LET st == Utf8Step(s, i)
         IN  (IF st.valid THEN SubSeq(s, i + 1, i + st.len) ELSE REPLACEMENT)
                 \o LossyFrom(s, i + st.len)

\* String::from_utf8_lossy(bytes).into_owned()
from_utf8_lossy(bytes) == LossyFrom(bytes, 0)

RECURSIVE ValidFrom(_, _)
ValidFrom(s, i) ==
    IF i >= Len(s) THEN TRUE
    ELSE LET st == Utf8Step(s, i)
         IN  st.valid /\ ValidFrom(s, i + st.len)

\* the byte sequences a String / &str can hold
IsUtf8(s) == ValidFrom(s, 0)

\* str::is_char_boundary
is_char_boundary(text, index) ==
    \/ index = 0
    \/ index = Len(text)
    \/ index < Len(text) /\ ~IsCont(text[index + 1])

(***************************************************************************)
(* zkpdf_lib                                                               *)
(***************************************************************************)
MAX_PAGE_NUMBER == 10000

Ok == <<"Ok">>
EmptyPDFData == <<"EmptyPDFData">>
EmptySubstring == <<"EmptySubstring">>
OffsetOutOfBounds == <<"OffsetOutOfBounds">>
SubstringNotFound == <<"SubstringNotFound">>
InvalidPageNumber(n) == <<"InvalidPageNumber", n>>
InvalidOffset(n) == <<"InvalidOffset", n>>

\* usize::checked_add: None is modelled as -1
checked_add(a, b) == IF a + b > USIZE_MAX THEN -1 ELSE a + b

\* validate_input with the page check moved in front of the emptiness checks
validate_input_page_first(in) ==
    IF in.page_number > MAX_PAGE_NUMBER THEN InvalidPageNumber(in.page_number)
    ELSE IF Len(in.pdf_bytes) = 0 THEN EmptyPDFData
    ELSE IF Len(in.substring) = 0 THEN EmptySubstring
    ELSE IF in.offset >= Len(in.pdf_bytes) THEN OffsetOutOfBounds
    ELSE IF checked_add(in.offset, Len(in.substring)) = -1 THEN InvalidOffset(in.offset)
    ELSE Ok

\* validate_input with the overflow check in front of the bounds check
validate_input_overflow_first(in) ==
    IF Len(in.pdf_bytes) = 0 THEN EmptyPDFData
    ELSE IF Len(in.substring) = 0 THEN EmptySubstring
    ELSE IF in.page_number > MAX_PAGE_NUMBER THEN InvalidPageNumber(in.page_number)
    ELSE IF checked_add(in.offset, Len(in.substring)) = -1 THEN InvalidOffset(in.offset)
    ELSE IF in.offset >= Len(in.pdf_bytes) THEN OffsetOutOfBounds
    ELSE Ok

validate_input(in) ==
    IF Len(in.pdf_bytes) = 0 THEN EmptyPDFData
    ELSE IF Len(in.substring) = 0 THEN EmptySubstring
    ELSE IF in.page_number > MAX_PAGE_NUMBER THEN InvalidPageNumber(in.page_number)
    ELSE IF in.offset >= Len(in.pdf_bytes) THEN OffsetOutOfBounds
    ELSE IF checked_add(in.offset, Len(in.substring)) = -1 THEN InvalidOffset(in.offset)
    ELSE Ok

extract_text_from_pdf(pdf_bytes) == from_utf8_lossy(pdf_bytes)

\* verify_substring_at_offset in a build with (checks) or without overflow
\* checks.  [panic, value]: the bool returned, or a panic:
\*  - of the usize addition offset + substring.len() when it overflows and
\*    the build checks overflow; without the checks the sum wraps;
\*  - of the str slice &text[offset..end] when offset > end ("begin <= end")
\*    or when offset or end is not on a char boundary.
verify_substring_at_offset_in(checks, text, offset, substring) ==
    LET sum  == offset + Len(substring)
        end  == sum % (USIZE_MAX + 1)
    IN  IF sum > USIZE_MAX /\ checks THEN [panic |-> TRUE, value |-> FALSE]
        ELSE IF end > Len(text) THEN [panic |-> FALSE, value |-> FALSE]
        ELSE IF offset > end THEN [panic |-> TRUE, value |-> FALSE]
        ELSE IF ~(is_char_boundary(text, offset) /\ is_char_boundary(text, end))
            THEN [panic |-> TRUE, value |-> FALSE]
        ELSE [panic |-> FALSE,
              value |-> SubSeq(text, offset + 1, end) = substring]

\* verify_substring_at_offset as built
verify_substring_at_offset(text, offset, substring) ==
    verify_substring_at_offset_in(overflow_checks, text, offset, substring)

\* the ASCII decimal digits of n, most significant first (Display of an
\* unsigned integer, as format! and serde_json write it)
RECURSIVE Decimal(_)
Decimal(n) == IF n < 10 THEN <<48 + n>> ELSE Append(Decimal(n \div 10), 48 + (n % 10))

\* "Verified PDF with " and " bytes"
MetadataPrefix ==
    <<86, 101, 114, 105, 102, 105, 101, 100, 32, 80, 68, 70, 32, 119, 105, 116, 104, 32>>
MetadataSuffix == <<32, 98, 121, 116, 101, 115>>

\* format!("Verified PDF with {} bytes", n)
Metadata(n) == MetadataPrefix \o Decimal(n) \o MetadataSuffix

\* verify_pdf_claim reporting the length of the decoded text in metadata
verify_pdf_claim_text_len(in) ==
    LET v == validate_input(in)
    IN  IF v # Ok THEN [kind |-> "Err", error |-> v]
        ELSE LET pdf_text == extract_text_from_pdf(in.pdf_bytes)
                 verified == verify_substring_at_offset(pdf_text, in.offset, in.substring)
             IN  IF verified.panic THEN [kind |-> "Panic"]
                 ELSE [kind |-> "Ok",
                       proof |-> [verified    |-> verified.value,
                                  page_number |-> in.page_number,
                                  offset      |-> in.offset,
                                  substring   |-> in.substring,
                                  metadata    |-> Metadata(Len(pdf_text))]]

\* verify_pdf_claim reading the text of the page: page_number pages of
\* Len(pdf_bytes) bytes are skipped before offset is applied
verify_pdf_claim_paged(in) ==
    LET v == validate_input(in)
    IN  IF v # Ok THEN [kind |-> "Err", error |-> v]
        ELSE LET pdf_text == extract_text_from_pdf(in.pdf_bytes)
                 verified == verify_substring_at_offset(pdf_text,
                                 Min(in.page_number * Len(in.pdf_bytes) + in.offset, USIZE_MAX - Len(in.substring)),
                                 in.substring)
             IN  IF verified.panic THEN [kind |-> "Panic"]
                 ELSE [kind |-> "Ok",
                       proof |-> [verified    |-> verified.value,
                                  page_number |-> in.page_number,
                                  offset      |-> in.offset,
                                  substring   |-> in.substring,
                                  metadata    |-> Metadata(Len(in.pdf_bytes))]]

verify_pdf_claim(in) ==
    LET v == validate_input(in)
    IN  IF v # Ok THEN [kind |-> "Err", error |-> v]
        ELSE LET pdf_text == extract_text_from_pdf(in.pdf_bytes)
                 verified == verify_substring_at_offset(pdf_text, in.offset, in.substring)
             IN  IF verified.panic THEN [kind |-> "Panic"]
                 ELSE [kind |-> "Ok",
                       proof |-> [verified    |-> verified.value,
                                  page_number |-> in.page_number,
                                  offset      |-> in.offset,
                                  substring   |-> in.substring,
                                  metadata    |-> Metadata(Len(in.pdf_bytes))]]

\* The requests a caller can build: a Vec<u8>, a u32, a usize, a String.
Offsets == (0..(MaxDocLen + 1)) \cup {USIZE_MAX}

Requests ==
    [pdf_bytes   : BSeq(DocBytes, Min(MaxDocLen, ISIZE_MAX)),
     page_number : Pages,
     offset      : {o \in Offsets : o <= USIZE_MAX},
     substring   : {s \in BSeq(DocBytes, Min(MaxSubLen, ISIZE_MAX)) : IsUtf8(s)}]

Pending == [kind |-> "Pending"]

\* the variables of the other component, parked
NoAccount == [initialized |-> FALSE]
NoCall == [op |-> "none"]
AccountIdle == proof_account = NoAccount /\ last = NoCall
NoCalls == <<>>
NoInput == [pdf_bytes |-> <<>>, page_number |-> 0, offset |-> 0, substring |-> <<>>]
NoValue == [type |-> "none"]
NotYet == [kind |-> "NotYet"]
SerdeIdle == value = NoValue /\ wire = <<>> /\ back = NotYet
VerifierIdle == input = NoInput /\ outcome = Pending
\* the build does not matter where verify_pdf_claim is not called
AnyBuild == overflow_checks = TRUE

Init ==
    /\ input \in Requests
    /\ overflow_checks \in BOOLEAN
    /\ outcome = Pending
    /\ calls = NoCalls
    /\ SerdeIdle
    /\ AccountIdle

\* one call of verify_pdf_claim(input)
Call ==
    /\ outcome = Pending
    /\ outcome' = verify_pdf_claim(input)
    /\ UNCHANGED <<input, overflow_checks, calls, serdeVars, accountVars>>

Next == Call

Spec == Init /\ [][Next]_vars

Returned == outcome.kind # "Pending"
Err(e) == [kind |-> "Err", error |-> e]

(***************************************************************************)
(* Concurrent callers.  Each call owns its PDFCircuitInput (moved into the *)
(* call) and its locals pdf_text and verified; the statements of           *)
(* verify_pdf_claim are the steps, interleaved freely.                     *)
(***************************************************************************)
Callers == 1..NCallers

\* requests the concurrent callers pass
ConcRequests ==
    {[pdf_bytes |-> b, page_number |-> p, offset |-> o, substring |-> s] :
        b \in {<<97, 98>>, <<98, 189>>, <<>>},
        p \in {0, 10001},
        o \in {0, 1},
        s \in {<<97>>, <<98>>}}

NewCall(in) ==
    [pc |-> "validate", input |-> in, pdf_text |-> <<>>, verified |-> FALSE,
     result |-> Pending]

InitConc ==
    /\ calls \in [Callers -> {NewCall(in) : in \in ConcRequests}]
    /\ overflow_checks \in BOOLEAN
    /\ VerifierIdle
    /\ SerdeIdle
    /\ AccountIdle

\* validate_input(&input)?
Validate(c) ==
    /\ calls[c].pc = "validate"
    /\ LET v == validate_input(calls[c].input)
       IN  calls' = [calls EXCEPT ![c] =
                IF v # Ok THEN [@ EXCEPT !.pc = "done", !.result = Err(v)]
                ELSE [@ EXCEPT !.pc = "extract"]]
    /\ UNCHANGED <<verifierVars, serdeVars, accountVars>>

\* the decoded text kept in one buffer that every call in progress reads
ExtractTextShared(c) ==
    /\ calls[c].pc = "extract"
    /\ calls' = [k \in Callers |->
            IF k = c
            THEN [calls[k] EXCEPT !.pc = "verify",
                                  !.pdf_text = extract_text_from_pdf(calls[c].input.pdf_bytes)]
            ELSE [calls[k] EXCEPT !.pdf_text = extract_text_from_pdf(calls[c].input.pdf_bytes)]]
    /\ UNCHANGED <<verifierVars, serdeVars, accountVars>>

\* let pdf_text = extract_text_from_pdf(&input.pdf_bytes);
ExtractText(c) ==
    /\ calls[c].pc = "extract"
    /\ calls' = [calls EXCEPT ![c] =
            [@ EXCEPT !.pc = "verify",
                      !.pdf_text = extract_text_from_pdf(calls[c].input.pdf_bytes)]]
    /\ UNCHANGED <<verifierVars, serdeVars, accountVars>>

\* let verified = verify_substring_at_offset(&pdf_text, input.offset, &input.substring);
VerifySubstring(c) ==
    /\ calls[c].pc = "verify"
    /\ LET r == verify_substring_at_offset(calls[c].pdf_text, calls[c].input.offset,
                                           calls[c].input.substring)
       IN  calls' = [calls EXCEPT ![c] =
                IF r.panic THEN [@ EXCEPT !.pc = "done", !.result = [kind |-> "Panic"]]
                ELSE [@ EXCEPT !.pc = "return", !.verified = r.value]]
    /\ UNCHANGED <<verifierVars, serdeVars, accountVars>>

\* Ok(PDFVerificationProof { .. })
ReturnProof(c) ==
    /\ calls[c].pc = "return"
    /\ calls' = [calls EXCEPT ![c] =
            [@ EXCEPT !.pc = "done",
                      !.result = [kind |-> "Ok",
                                  proof |-> [verified    |-> calls[c].verified,
                                             page_number |-> calls[c].input.page_number,
                                             offset      |-> calls[c].input.offset,
                                             substring   |-> calls[c].input.substring,
                                             metadata    |-> Metadata(Len(calls[c].input.pdf_bytes))]]]]
    /\ UNCHANGED <<verifierVars, serdeVars, accountVars>>

NextConc ==
    \E c \in Callers :
        \/ Validate(c)
        \/ ExtractText(c)
        \/ VerifySubstring(c)
        \/ ReturnProof(c)

SpecConc == InitConc /\ [][NextConc]_vars

(***************************************************************************)
(* serde_json: #[derive(Serialize, Deserialize)] on PDFCircuitInput and    *)
(* PDFVerificationProof, with to_string (compact) and from_str.  The JSON  *)
(* text is a sequence of bytes.                                            *)
(***************************************************************************)
K_pdf_bytes == <<112, 100, 102, 95, 98, 121, 116, 101, 115>>
K_page_number == <<112, 97, 103, 101, 95, 110, 117, 109, 98, 101, 114>>
K_offset == <<111, 102, 102, 115, 101, 116>>
K_substring == <<115, 117, 98, 115, 116, 114, 105, 110, 103>>
K_verified == <<118, 101, 114, 105, 102, 105, 101, 100>>
K_metadata == <<109, 101, 116, 97, 100, 97, 116, 97>>
L_true == <<116, 114, 117, 101>>
L_false == <<102, 97, 108, 115, 101>>

\* lowercase hex digit
HexDigit(d) == IF d < 10 THEN 48 + d ELSE 87 + d

\* the ESCAPE table without the entry for the backslash
EscapeByteNoBackslash(b) ==
    IF b = 34 THEN <<92, 34>>
    ELSE IF b = 8 THEN <<92, 98>>
    ELSE IF b = 9 THEN <<92, 116>>
    ELSE IF b = 10 THEN <<92, 110>>
    ELSE IF b = 12 THEN <<92, 102>>
    ELSE IF b = 13 THEN <<92, 114>>
    ELSE IF b < 32 THEN <<92, 117, 48, 48, HexDigit(b \div 16), HexDigit(b % 16)>>
    ELSE <<b>>

\* serde_json's ESCAPE table: what one byte of a string is written as
EscapeByte(b) ==
    IF b = 34 THEN <<92, 34>>
    ELSE IF b = 92 THEN <<92, 92>>
    ELSE IF b = 8 THEN <<92, 98>>
    ELSE IF b = 9 THEN <<92, 116>>
    ELSE IF b = 10 THEN <<92, 110>>
    ELSE IF b = 12 THEN <<92, 102>>
    ELSE IF b = 13 THEN <<92, 114>>
    ELSE IF b < 32 THEN <<92, 117, 48, 48, HexDigit(b \div 16), HexDigit(b % 16)>>
    ELSE <<b>>

RECURSIVE EscapeAll(_)
EscapeAll(str) ==
    IF Len(str) = 0 THEN <<>> ELSE EscapeByte(Head(str)) \o EscapeAll(Tail(str))

JsonString(str) == <<34>> \o EscapeAll(str) \o <<34>>

JsonBool(b) == IF b THEN L_true ELSE L_false

\* a Vec<u8> is a JSON array of numbers
RECURSIVE JsonElements(_)
JsonElements(bytes) ==
    IF Len(bytes) = 0 THEN <<>>
    ELSE IF Len(bytes) = 1 THEN Decimal(bytes[1])
    ELSE Decimal(Head(bytes)) \o <<44>> \o JsonElements(Tail(bytes))

JsonBytes(bytes) == <<91>> \o JsonElements(bytes) \o <<93>>

JsonField(key, text) == JsonString(key) \o <<58>> \o text

\* serde_json::to_string(&PDFCircuitInput)
to_string_input(v) ==
    <<123>> \o JsonField(K_pdf_bytes, JsonBytes(v.pdf_bytes))
    \o <<44>> \o JsonField(K_page_number, Decimal(v.page_number))
    \o <<44>> \o JsonField(K_offset, Decimal(v.offset))
    \o <<44>> \o JsonField(K_substring, JsonString(v.substring))
    \o <<125>>

\* serde_json::to_string(&PDFVerificationProof)
to_string_proof(v) ==
    <<123>> \o JsonField(K_verified, JsonBool(v.verified))
    \o <<44>> \o JsonField(K_page_number, Decimal(v.page_number))
    \o <<44>> \o JsonField(K_offset, Decimal(v.offset))
    \o <<44>> \o JsonField(K_substring, JsonString(v.substring))
    \o <<44>> \o JsonField(K_metadata, JsonString(v.metadata))
    \o <<125>>

\* ---- the reader (serde_json::from_str over a &str).  A parse step is
\* [ok, val, next]: next is the 1-based index of the first byte not consumed.
Fail == [ok |-> FALSE, val |-> 0, next |-> 0]
Got(v, n) == [ok |-> TRUE, val |-> v, next |-> n]

At(w, i) == IF i >= 1 /\ i <= Len(w) THEN w[i] ELSE -1
IsDigit(b) == b >= 48 /\ b <= 57

\* the text from index i on starts with p
HasPrefix(w, i, p) ==
    /\ i >= 1
    /\ i + Len(p) - 1 <= Len(w)
    /\ SubSeq(w, i, i + Len(p) - 1) = p

\* JSON whitespace: ' ', '\n', '\t', '\r'
IsWhitespace(b) == b = 32 \/ b = 10 \/ b = 9 \/ b = 13

\* the index of the first byte from i on that is no whitespace
RECURSIVE parse_whitespace(_, _)
parse_whitespace(w, i) ==
    IF IsWhitespace(At(w, i)) THEN parse_whitespace(w, i + 1) ELSE i

\* the index of the first byte from i on that is no digit
RECURSIVE DigitsFrom(_, _)
DigitsFrom(w, i) == IF IsDigit(At(w, i)) THEN DigitsFrom(w, i + 1) ELSE i

\* a <= b for two strings of decimal digits of the same length
RECURSIVE LexLeq(_, _)
LexLeq(a, b) ==
    IF Len(a) = 0 THEN TRUE
    ELSE IF Head(a) # Head(b) THEN Head(a) < Head(b)
    ELSE LexLeq(Tail(a), Tail(b))

\* a <= b for two decimal numerals without leading zeros
NumeralLeq(a, b) == Len(a) < Len(b) \/ (Len(a) = Len(b) /\ LexLeq(a, b))

\* the largest values of the unsigned types read, as decimal numerals
U8_MAX == <<50, 53, 53>>
U32_MAX == <<52, 50, 57, 52, 57, 54, 55, 50, 57, 53>>
USIZE_MAX_NUMERAL == Decimal(USIZE_MAX)
\* the largest integer the model computes with: 2147483647
INT_MAX == <<50, 49, 52, 55, 52, 56, 51, 54, 52, 55>>

RECURSIVE NumeralValue(_, _)
NumeralValue(d, acc) ==
    IF Len(d) = 0 THEN acc ELSE NumeralValue(Tail(d), 10 * acc + (Head(d) - 48))

\* the number a numeral denotes; a number above INT_MAX stands as its numeral
NumberOf(d) == IF NumeralLeq(d, INT_MAX) THEN NumeralValue(d, 0) ELSE d

\* an unsigned integer no larger than max (a numeral) after optional
\* whitespace.  A sign, a leading zero, a fraction or an exponent is an
\* error: a negative number or a float is no value of an unsigned type.
ParseNumber(w, i, max) ==
    LET j == parse_whitespace(w, i)
        e == DigitsFrom(w, j)
        d == SubSeq(w, j, e - 1)
    IN  IF e = j THEN Fail
        ELSE IF w[j] = 48 /\ e > j + 1 THEN Fail
        ELSE IF At(w, e) = 46 \/ At(w, e) = 101 \/ At(w, e) = 69 THEN Fail
        ELSE IF ~NumeralLeq(d, max) THEN Fail
        ELSE Got(NumberOf(d), e)

\* value of a hex digit, -1 if it is none
HexValue(b) ==
    IF b >= 48 /\ b <= 57 THEN b - 48
    ELSE IF b >= 97 /\ b <= 102 THEN b - 87
    ELSE IF b >= 65 /\ b <= 70 THEN b - 55
    ELSE -1

\* decode_hex_escape: the value of the four hex digits from index i on, -1
\* if one of them is no hex digit
decode_hex_escape(w, i) ==
    LET h1 == HexValue(At(w, i))
        h2 == HexValue(At(w, i + 1))
        h3 == HexValue(At(w, i + 2))
        h4 == HexValue(At(w, i + 3))
    IN  IF h1 = -1 \/ h2 = -1 \/ h3 = -1 \/ h4 = -1 THEN -1
        ELSE 4096 * h1 + 256 * h2 + 16 * h3 + h4

\* char::encode_utf8
encode_utf8(cp) ==
    IF cp < 128 THEN <<cp>>
    ELSE IF cp < 2048 THEN <<192 + (cp \div 64), 128 + (cp % 64)>>
    ELSE IF cp < 65536 THEN
        <<224 + (cp \div 4096), 128 + ((cp \div 64) % 64), 128 + (cp % 64)>>
    ELSE <<240 + (cp \div 262144), 128 + ((cp \div 4096) % 64),
           128 + ((cp \div 64) % 64), 128 + (cp % 64)>>

\* the bytes after the opening quote, up to the closing one.  \uXXXX with a
\* leading surrogate must be followed by \uXXXX with a trailing one, and the
\* pair is one code point; any other surrogate is an error.
RECURSIVE StringBody(_, _, _)
StringBody(w, j, acc) ==
    LET b == At(w, j)
        e == At(w, j + 1)
    IN  IF b = -1 THEN Fail
        ELSE IF b = 34 THEN Got(acc, j + 1)
        ELSE IF b < 32 THEN Fail
        ELSE IF b # 92 THEN StringBody(w, j + 1, Append(acc, b))
        ELSE IF e = 34 \/ e = 92 \/ e = 47 THEN StringBody(w, j + 2, Append(acc, e))
        ELSE IF e = 98 THEN StringBody(w, j + 2, Append(acc, 8))
        ELSE IF e = 102 THEN StringBody(w, j + 2, Append(acc, 12))
        ELSE IF e = 110 THEN StringBody(w, j + 2, Append(acc, 10))
        ELSE IF e = 114 THEN StringBody(w, j + 2, Append(acc, 13))
        ELSE IF e = 116 THEN StringBody(w, j + 2, Append(acc, 9))
        ELSE IF e = 117 THEN
            LET n1 == decode_hex_escape(w, j + 2)
                n2 == decode_hex_escape(w, j + 8)
            IN  IF n1 = -1 THEN Fail
                ELSE IF n1 >= 56320 /\ n1 <= 57343 THEN Fail
                ELSE IF n1 >= 55296 /\ n1 <= 56319 THEN
                    IF At(w, j + 6) # 92 \/ At(w, j + 7) # 117 THEN Fail
                    ELSE IF n2 < 56320 \/ n2 > 57343 THEN Fail
                    ELSE StringBody(w, j + 12, acc \o encode_utf8(
                            65536 + (n1 - 55296) * 1024 + (n2 - 56320)))
                ELSE StringBody(w, j + 6, acc \o encode_utf8(n1))
        ELSE Fail

\* a String after optional whitespace
ParseString(w, i) ==
    LET j == parse_whitespace(w, i)
    IN  IF At(w, j) = 34 THEN StringBody(w, j + 1, <<>>) ELSE Fail

\* a bool after optional whitespace
ParseBool(w, i) ==
    LET j == parse_whitespace(w, i)
    IN  IF HasPrefix(w, j, L_true) THEN Got(TRUE, j + 4)
        ELSE IF HasPrefix(w, j, L_false) THEN Got(FALSE, j + 5)
        ELSE Fail

\* the elements of a Vec<u8> from index i on, up to the closing bracket;
\* first: no element has been read.  Whitespace may stand before an element,
\* a comma and the bracket; a comma before the bracket is an error.
RECURSIVE ElementsFrom(_, _, _, _)
ElementsFrom(w, i, acc, first) ==
    LET j == parse_whitespace(w, i)
        k == IF first THEN j ELSE j + 1
        n == ParseNumber(w, k, U8_MAX)
    IN  IF At(w, j) = 93 THEN Got(acc, j + 1)
        ELSE IF ~first /\ At(w, j) # 44 THEN Fail
        ELSE IF ~n.ok THEN Fail
        ELSE ElementsFrom(w, n.next, Append(acc, n.val), FALSE)

\* a Vec<u8> after optional whitespace
ParseBytes(w, i) ==
    LET j == parse_whitespace(w, i)
    IN  IF At(w, j) = 91 THEN ElementsFrom(w, j + 1, <<>>, TRUE) ELSE Fail

\* ---- IgnoredAny: any JSON value is read over.  These give the index after
\* the value, 0 if the text is no JSON value.
L_null == <<110, 117, 108, 108>>

ignore_exponent(w, i) ==
    LET k == IF At(w, i + 1) = 43 \/ At(w, i + 1) = 45 THEN i + 2 ELSE i + 1
    IN  IF At(w, i) # 101 /\ At(w, i) # 69 THEN i
        ELSE IF IsDigit(At(w, k)) THEN DigitsFrom(w, k)
        ELSE 0

ignore_decimal(w, i) ==
    IF At(w, i) # 46 THEN ignore_exponent(w, i)
    ELSE IF IsDigit(At(w, i + 1)) THEN ignore_exponent(w, DigitsFrom(w, i + 1))
    ELSE 0

\* i is the index after the sign, if there is one
ignore_integer(w, i) ==
    IF ~IsDigit(At(w, i)) THEN 0
    ELSE IF w[i] = 48 THEN (IF IsDigit(At(w, i + 1)) THEN 0 ELSE ignore_decimal(w, i + 1))
    ELSE ignore_decimal(w, DigitsFrom(w, i))

\* j is the index after the opening quote.  The hex digits of \u are
\* validated, the code point is not.
RECURSIVE ignore_str(_, _)
ignore_str(w, j) ==
    LET b == At(w, j)
        e == At(w, j + 1)
    IN  IF b = -1 THEN 0
        ELSE IF b = 34 THEN j + 1
        ELSE IF b < 32 THEN 0
        ELSE IF b # 92 THEN ignore_str(w, j + 1)
        ELSE IF e \in {34, 92, 47, 98, 102, 110, 114, 116} THEN ignore_str(w, j + 2)
        ELSE IF e = 117 /\ decode_hex_escape(w, j + 2) # -1 THEN ignore_str(w, j + 6)
        ELSE 0

RECURSIVE ignore_value(_, _)
RECURSIVE IgnoreElements(_, _, _)
RECURSIVE IgnoreMembers(_, _, _)

ignore_value(w, i) ==
    LET j == parse_whitespace(w, i)
        b == At(w, j)
    IN  IF b = 110 THEN (IF HasPrefix(w, j, L_null) THEN j + 4 ELSE 0)
        ELSE IF b = 116 THEN (IF HasPrefix(w, j, L_true) THEN j + 4 ELSE 0)
        ELSE IF b = 102 THEN (IF HasPrefix(w, j, L_false) THEN j + 5 ELSE 0)
        ELSE IF b = 45 THEN ignore_integer(w, j + 1)
        ELSE IF IsDigit(b) THEN ignore_integer(w, j)
        ELSE IF b = 34 THEN ignore_str(w, j + 1)
        ELSE IF b = 91 THEN IgnoreElements(w, j + 1, TRUE)
        ELSE IF b = 123 THEN IgnoreMembers(w, j + 1, TRUE)
        ELSE 0

\* the elements of an array from index i on, up to the closing bracket
IgnoreElements(w, i, first) ==
    LET j == parse_whitespace(w, i)
        v == ignore_value(w, IF first THEN j ELSE j + 1)
    IN  IF At(w, j) = 93 THEN j + 1
        ELSE IF ~first /\ At(w, j) # 44 THEN 0
        ELSE IF v = 0 THEN 0
        ELSE IgnoreElements(w, v, FALSE)

\* the members of an object from index i on, up to the closing brace
IgnoreMembers(w, i, first) ==
    LET j == parse_whitespace(w, i)
        k == parse_whitespace(w, IF first THEN j ELSE j + 1)
        s == ignore_str(w, k + 1)
        c == parse_whitespace(w, s)
        v == ignore_value(w, c + 1)
    IN  IF At(w, j) = 125 THEN j + 1
        ELSE IF ~first /\ At(w, j) # 44 THEN 0
        ELSE IF At(w, k) # 34 \/ s = 0 THEN 0
        ELSE IF At(w, c) # 58 \/ v = 0 THEN 0
        ELSE IgnoreMembers(w, v, FALSE)

\* ---- the derived Deserialize of the two structs
FieldNames(type) ==
    IF type = "input" THEN {"pdf_bytes", "page_number", "offset", "substring"}
    ELSE {"verified", "page_number", "offset", "substring", "metadata"}

\* the fields in the order of their declaration
FieldOrder(type) ==
    IF type = "input" THEN <<"pdf_bytes", "page_number", "offset", "substring">>
    ELSE <<"verified", "page_number", "offset", "substring", "metadata">>

FieldOf(key) ==
    IF key = K_pdf_bytes THEN "pdf_bytes"
    ELSE IF key = K_page_number THEN "page_number"
    ELSE IF key = K_offset THEN "offset"
    ELSE IF key = K_substring THEN "substring"
    ELSE IF key = K_verified THEN "verified"
    ELSE IF key = K_metadata THEN "metadata"
    ELSE "?"

\* the parser of each field's type
ParseFieldValue(name, w, i) ==
    IF name = "pdf_bytes" THEN ParseBytes(w, i)
    ELSE IF name = "page_number" THEN ParseNumber(w, i, U32_MAX)
    ELSE IF name = "offset" THEN ParseNumber(w, i, USIZE_MAX_NUMERAL)
    ELSE IF name = "verified" THEN ParseBool(w, i)
    ELSE ParseString(w, i)

\* visit_map: the members of the object from index i on, up to the closing
\* brace; got maps the fields read so far to their values, first: no member
\* has been read.  A member whose key is no field of the struct is read over;
\* a duplicate or a missing field is an error.
RECURSIVE Members(_, _, _, _, _)
Members(type, w, i, got, first) ==
    LET j    == parse_whitespace(w, i)
        k    == parse_whitespace(w, IF first THEN j ELSE j + 1)
        key  == StringBody(w, k + 1, <<>>)
        c    == parse_whitespace(w, key.next)
        name == FieldOf(key.val)
        v    == ParseFieldValue(name, w, c + 1)
        s    == ignore_value(w, c + 1)
        now  == [f \in DOMAIN got \cup {name} |->
                    IF f = name THEN v.val ELSE got[f]]
    IN  IF At(w, j) = 125 THEN
            (IF DOMAIN got = FieldNames(type) THEN Got(got, j + 1) ELSE Fail)
        ELSE IF ~first /\ At(w, j) # 44 THEN Fail
        ELSE IF At(w, k) # 34 THEN Fail
        ELSE IF ~key.ok THEN Fail
        ELSE IF At(w, c) # 58 THEN Fail
        ELSE IF name \notin FieldNames(type) THEN
            (IF s = 0 THEN Fail ELSE Members(type, w, s, got, FALSE))
        ELSE IF name \in DOMAIN got THEN Fail
        ELSE IF ~v.ok THEN Fail
        ELSE Members(type, w, v.next, now, FALSE)

\* visit_seq: the fields as the elements of an array, in the order of their
\* declaration, from index i on; n fields have been read.  A missing or an
\* extra element is an error.
RECURSIVE SeqFields(_, _, _, _, _)
SeqFields(type, w, i, n, got) ==
    LET j    == parse_whitespace(w, i)
        name == FieldOrder(type)[n + 1]
        v    == ParseFieldValue(name, w, IF n = 0 THEN j ELSE j + 1)
        now  == [f \in DOMAIN got \cup {name} |->
                    IF f = name THEN v.val ELSE got[f]]
    IN  IF n = Len(FieldOrder(type)) THEN
            (IF At(w, j) = 93 THEN Got(got, j + 1) ELSE Fail)
        ELSE IF At(w, j) = 93 THEN Fail
        ELSE IF n > 0 /\ At(w, j) # 44 THEN Fail
        ELSE IF ~v.ok THEN Fail
        ELSE SeqFields(type, w, v.next, n + 1, now)

\* deserialize_struct, then Deserializer::end: an object or an array after
\* optional whitespace, and nothing but whitespace after it
from_str(type, w) ==
    LET j == parse_whitespace(w, 1)
        r == IF At(w, j) = 123 THEN Members(type, w, j + 1, <<>>, TRUE)
             ELSE IF At(w, j) = 91 THEN SeqFields(type, w, j + 1, 0, <<>>)
             ELSE Fail
    IN  IF r.ok /\ parse_whitespace(w, r.next) = Len(w) + 1
        THEN [kind |-> "Ok", v |-> r.val]
        ELSE [kind |-> "Err"]

\* serde_json::from_str::<PDFCircuitInput>
from_str_input(w) == from_str("input", w)

\* serde_json::from_str::<PDFVerificationProof>
from_str_proof(w) == from_str("proof", w)

\* bytes the strings of the serialized values are built from: 'a', '"', '\',
\* line feed and the control character 0x01
SerdeChars == {97, 34, 92, 10, 1}

SerdeStrings == BSeq(SerdeChars, 2) \cup {REPLACEMENT}

SerdeInputs ==
    [pdf_bytes   : {<<>>, <<84>>, <<0, 255>>, <<101, 115, 116>>},
     page_number : {0, 20000},
     offset      : {0, Len(<<84>>), USIZE_MAX},
     substring   : SerdeStrings]

SerdeProofs ==
    [verified    : BOOLEAN,
     page_number : {0, 10000},
     offset      : {0, USIZE_MAX},
     substring   : {<<>>, <<97, 34>>, REPLACEMENT},
     metadata    : {<<>>, Metadata(0), Metadata(10), <<92, 10>>}]

InitSerde ==
    /\ value \in {[type |-> "input", v |-> x] : x \in SerdeInputs}
                    \cup {[type |-> "proof", v |-> x] : x \in SerdeProofs}
    /\ wire = <<>>
    /\ back = NotYet
    /\ VerifierIdle
    /\ AnyBuild
    /\ calls = NoCalls
    /\ AccountIdle

\* let serialized = serde_json::to_string(&input).unwrap();
SerializeInput ==
    /\ value.type = "input" /\ wire = <<>>
    /\ wire' = to_string_input(value.v)
    /\ UNCHANGED <<value, back, verifierVars, calls, accountVars>>

SerializeProof ==
    /\ value.type = "proof" /\ wire = <<>>
    /\ wire' = to_string_proof(value.v)
    /\ UNCHANGED <<value, back, verifierVars, calls, accountVars>>

\* let deserialized: PDFCircuitInput = serde_json::from_str(&serialized)
DeserializeInput ==
    /\ value.type = "input" /\ wire # <<>> /\ back = NotYet
    /\ back' = from_str_input(wire)
    /\ UNCHANGED <<value, wire, verifierVars, calls, accountVars>>

DeserializeProof ==
    /\ value.type = "proof" /\ wire # <<>> /\ back = NotYet
    /\ back' = from_str_proof(wire)
    /\ UNCHANGED <<value, wire, verifierVars, calls, accountVars>>

NextSerde == SerializeInput \/ SerializeProof \/ DeserializeInput \/ DeserializeProof

SpecSerde == InitSerde /\ [][NextSerde]_vars

(***************************************************************************)
(* The zkproof program: one proof account, instructions sent by any signer *)
(* in any order.  An instruction that returns an error leaves the account  *)
(* as it was.                                                              *)
(***************************************************************************)
MAX_PROOF_SIZE == 1024
\* the length verify_proof asks for
MIN_VALID_PROOF_LEN == 32

\* number of distinct signer keys
NKeys == 2
Keys == 1..NKeys

\* proof data sent with prove: lengths around the limits, two fillings
ProofLens == {0, 1, MIN_VALID_PROOF_LEN - 1, MIN_VALID_PROOF_LEN,
              MAX_PROOF_SIZE, MAX_PROOF_SIZE + 1}
ProofDatas == {[i \in 1..n |-> b] : n \in ProofLens, b \in {0, 255}}

Done(result, account) == [result |-> result, account |-> account]

\* initialize; #[account(init, ..)] creates the account and fails when it
\* already exists
initialize(account, signer) ==
    IF account.initialized THEN Done("AccountAlreadyInUse", account)
    ELSE Done("Ok", [initialized |-> TRUE,
                     authority   |-> signer,
                     verified    |-> FALSE,
                     proof_data  |-> <<>>])

\* prove with the emptiness check in front of the authority check
prove_empty_first(account, signer, proof_data) ==
    IF ~account.initialized THEN Done("AccountNotInitialized", account)
    ELSE IF Len(proof_data) = 0 THEN Done("EmptyProofData", account)
    ELSE IF signer # account.authority THEN Done("Unauthorized", account)
    ELSE IF ~(Len(proof_data) <= MAX_PROOF_SIZE) THEN Done("ProofTooLarge", account)
    ELSE Done("Ok", [account EXCEPT !.proof_data = proof_data, !.verified = FALSE])

\* prove; Account<'info, ProofAccount> fails to load an account that was
\* never initialized
prove(account, signer, proof_data) ==
    IF ~account.initialized THEN Done("AccountNotInitialized", account)
    ELSE IF signer # account.authority THEN Done("Unauthorized", account)
    ELSE IF Len(proof_data) = 0 THEN Done("EmptyProofData", account)
    ELSE IF ~(Len(proof_data) <= MAX_PROOF_SIZE) THEN Done("ProofTooLarge", account)
    ELSE Done("Ok", [account EXCEPT !.proof_data = proof_data, !.verified = FALSE])

\* verify_proof accepting every non-empty proof
verify_proof_non_empty(proof_data) == Len(proof_data) # 0

verify_proof(proof_data) ==
    Len(proof_data) # 0 /\ Len(proof_data) >= MIN_VALID_PROOF_LEN

finalize(account, signer) ==
    IF ~account.initialized THEN Done("AccountNotInitialized", account)
    ELSE IF signer # account.authority THEN Done("Unauthorized", account)
    ELSE IF Len(account.proof_data) = 0 THEN Done("NoProofData", account)
    ELSE Done("Ok", [account EXCEPT !.verified = verify_proof(account.proof_data)])

InitAccount ==
    /\ proof_account = NoAccount
    /\ last = NoCall
    /\ VerifierIdle
    /\ AnyBuild
    /\ calls = NoCalls
    /\ SerdeIdle

Initialize(k) ==
    /\ LET r == initialize(proof_account, k)
       IN  /\ proof_account' = r.account
           /\ last' = [op |-> "initialize", signer |-> k, data |-> <<>>,
                       result |-> r.result]
    /\ UNCHANGED <<verifierVars, calls, serdeVars>>

Prove(k, data) ==
    /\ LET r == prove(proof_account, k, data)
       IN  /\ proof_account' = r.account
           /\ last' = [op |-> "prove", signer |-> k, data |-> data,
                       result |-> r.result]
    /\ UNCHANGED <<verifierVars, calls, serdeVars>>

Finalize(k) ==
    /\ LET r == finalize(proof_account, k)
       IN  /\ proof_account' = r.account
           /\ last' = [op |-> "finalize", signer |-> k, data |-> <<>>,
                       result |-> r.result]
    /\ UNCHANGED <<verifierVars, calls, serdeVars>>

NextAccount ==
    \E k \in Keys :
        \/ Initialize(k)
        \/ \E data \in ProofDatas : Prove(k, data)
        \/ Finalize(k)

SpecAccount == InitAccount /\ [][NextAccount]_vars

(***************************************************************************)
(* Claims about verify_pdf_claim, checked under Spec.                      *)
(***************************************************************************)
\* the request passes the four reachable checks of validate_input
WellFormed(in) ==
    /\ Len(in.pdf_bytes) > 0
    /\ Len(in.substring) > 0
    /\ in.page_number <= 10000
    /\ in.offset < Len(in.pdf_bytes)

\* substring equals the lossily decoded text at bytes [offset, offset + len)
DecodedMatch(in) ==
    LET text == from_utf8_lossy(in.pdf_bytes)
        end  == in.offset + Len(in.substring)
    IN  /\ end <= Len(text)
        /\ \A k \in 1..Len(in.substring) : text[in.offset + k] = in.substring[k]

\* substring equals the raw document bytes at [offset, offset + len)
RawMatch(in) ==
    /\ in.offset + Len(in.substring) <= Len(in.pdf_bytes)
    /\ \A k \in 1..Len(in.substring) : in.pdf_bytes[in.offset + k] = in.substring[k]

\* C1 (as claimed): every well-formed request gets a result, never an error
\* or a panic, and verified is true exactly when the decoded text read at
\* [offset, offset + len) equals substring (false when that range runs past
\* the decoded text).
C1_ResultForWellFormed ==
    (Returned /\ WellFormed(input)) =>
        /\ outcome.kind = "Ok"
        /\ outcome.proof.verified = DecodedMatch(input)

\* C2 (as claimed): whenever a result is returned, verified is true iff the
\* substring's bytes occur in the raw document bytes at exactly the offset.
C2_VerifiedIffRawMatch ==
    outcome.kind = "Ok" => (outcome.proof.verified <=> RawMatch(input))

\* C3: the error returned is that of the first violated constraint, in the
\* order empty document, empty substring, page number, offset bound,
\* offset + length overflow.
C3_FirstViolationWins ==
    Returned =>
        LET in   == input
            c1   == Len(in.pdf_bytes) # 0
            c2   == Len(in.substring) # 0
            c3   == in.page_number <= 10000
            c4   == in.offset < Len(in.pdf_bytes)
            c5   == in.offset + Len(in.substring) <= USIZE_MAX
        IN  /\ ~c1 => outcome = Err(<<"EmptyPDFData">>)
            /\ (c1 /\ ~c2) => outcome = Err(<<"EmptySubstring">>)
            /\ (c1 /\ c2 /\ ~c3) => outcome = Err(<<"InvalidPageNumber", in.page_number>>)
            /\ (c1 /\ c2 /\ c3 /\ ~c4) => outcome = Err(<<"OffsetOutOfBounds">>)
            /\ (c1 /\ c2 /\ c3 /\ c4 /\ ~c5) => outcome = Err(<<"InvalidOffset", in.offset>>)

\* a call that violated the substring, page and offset constraints at once
\* and was answered with the substring's error
C3_Witness ==
    /\ Returned
    /\ Len(input.pdf_bytes) # 0
    /\ Len(input.substring) = 0
    /\ input.page_number > 10000
    /\ input.offset >= Len(input.pdf_bytes)
    /\ outcome = Err(<<"EmptySubstring">>)

\* C4 (as claimed): every request with a non-empty document and substring
\* whose page_number is >= 10000 is rejected with InvalidPageNumber.
C4_PageBelowLimit ==
    (/\ Returned
     /\ Len(input.pdf_bytes) # 0
     /\ Len(input.substring) # 0
     /\ input.page_number >= 10000)
        => outcome = Err(<<"InvalidPageNumber", input.page_number>>)

\* the number a string of ASCII decimal digits denotes
RECURSIVE DigitsValue(_)
DigitsValue(d) ==
    IF Len(d) = 0 THEN 0
    ELSE 10 * DigitsValue(SubSeq(d, 1, Len(d) - 1)) + (d[Len(d)] - 48)

\* C5: a result echoes page_number, offset and substring of the request and
\* its metadata states the byte count of the original pdf_bytes.
C5_ResultEchoesRequest ==
    outcome.kind = "Ok" =>
        /\ outcome.proof.page_number = input.page_number
        /\ outcome.proof.offset = input.offset
        /\ outcome.proof.substring = input.substring
        /\ LET m   == outcome.proof.metadata
               lo  == Len(MetadataPrefix)
               hi  == Len(m) - Len(MetadataSuffix)
               mid == SubSeq(m, lo + 1, hi)
           IN  /\ hi > lo
               /\ SubSeq(m, 1, lo) = MetadataPrefix
               /\ SubSeq(m, hi + 1, Len(m)) = MetadataSuffix
               /\ \A k \in 1..Len(mid) : mid[k] \in 48..57
               /\ DigitsValue(mid) = Len(input.pdf_bytes)

\* a verified result, and an unverified one, for a document whose decoded
\* text is longer than its bytes
C5_Witness ==
    /\ outcome.kind = "Ok"
    /\ Len(from_utf8_lossy(input.pdf_bytes)) # Len(input.pdf_bytes)
    /\ input.offset > 0
    /\ ~outcome.proof.verified

\* C6: changing only page_number, within 0..10000, changes neither the kind
\* of outcome (the same error, or a result) nor verified.
C6_PageNumberIsALabel ==
    (Returned /\ input.page_number <= 10000) =>
        \A p \in {q \in Pages : q <= 10000} :
            LET other == verify_pdf_claim([input EXCEPT !.page_number = p])
            IN  /\ other.kind = outcome.kind
                /\ outcome.kind = "Err" => other.error = outcome.error
                /\ outcome.kind = "Ok" => other.proof.verified = outcome.proof.verified

\* a verified result for a request on the last allowed page
C6_Witness ==
    /\ outcome.kind = "Ok"
    /\ outcome.proof.verified
    /\ input.page_number = 10000
    /\ input.offset > 0

\* C11: for requests whose pdf_bytes and substring are no longer than
\* isize::MAX, the only errors verify_pdf_claim returns are EmptyPDFData,
\* EmptySubstring, InvalidPageNumber(page_number) and OffsetOutOfBounds:
\* InvalidOffset and SubstringNotFound are never returned, no well-formed
\* request is answered with an error, and a result for a substring that
\* does not match has verified = false.
C11_OnlyFourErrors ==
    (/\ Returned
     /\ Len(input.pdf_bytes) <= ISIZE_MAX
     /\ Len(input.substring) <= ISIZE_MAX) =>
        /\ outcome.kind = "Err" =>
            /\ outcome.error[1] \in {"EmptyPDFData", "EmptySubstring",
                                     "InvalidPageNumber", "OffsetOutOfBounds"}
            /\ outcome.error[1] \notin {"InvalidOffset", "SubstringNotFound"}
            /\ ~WellFormed(input)
        /\ (outcome.kind = "Ok" /\ ~DecodedMatch(input)) => ~outcome.proof.verified

\* the largest offset into the longest document with the longest substring:
\* the sum stays below usize::MAX and the mismatch comes back as a result
C11_Witness ==
    /\ Len(input.pdf_bytes) = Min(MaxDocLen, ISIZE_MAX)
    /\ input.offset = Len(input.pdf_bytes) - 1
    /\ Len(input.substring) = Min(MaxSubLen, ISIZE_MAX)
    /\ outcome.kind = "Ok"
    /\ ~outcome.proof.verified

(***************************************************************************)
(* Claims about concurrent calls, checked under SpecConc.                  *)
(***************************************************************************)
\* C7: in every interleaving, a finished call's outcome is the outcome of
\* that call run alone, and finished calls with equal requests have equal
\* outcomes.
C7_CallsAreIndependent ==
    \A c \in Callers :
        calls[c].pc = "done" =>
            /\ calls[c].result = verify_pdf_claim(calls[c].input)
            /\ \A d \in Callers :
                    (calls[d].pc = "done" /\ calls[d].input = calls[c].input)
                        => calls[d].result = calls[c].result

\* two calls on different documents have both finished, one verified and one
\* not
C7_Witness ==
    \E c, d \in Callers :
        /\ calls[c].pc = "done" /\ calls[d].pc = "done"
        /\ calls[c].input.pdf_bytes # calls[d].input.pdf_bytes
        /\ calls[c].result.kind = "Ok" /\ calls[c].result.proof.verified
        /\ calls[d].result.kind = "Ok" /\ ~calls[d].result.proof.verified

(***************************************************************************)
(* Claims about serialization, checked under SpecSerde.                    *)
(***************************************************************************)
\* C8: deserializing the serialized PDFCircuitInput (PDFVerificationProof)
\* succeeds and yields a value equal to the original in every field, also
\* when offset is out of bounds for pdf_bytes.
C8_RoundTrip ==
    back # NotYet =>
        /\ back.kind = "Ok"
        /\ value.type = "input" =>
            /\ back.v.pdf_bytes = value.v.pdf_bytes
            /\ back.v.page_number = value.v.page_number
            /\ back.v.offset = value.v.offset
            /\ back.v.substring = value.v.substring
        /\ value.type = "proof" =>
            /\ back.v.verified = value.v.verified
            /\ back.v.page_number = value.v.page_number
            /\ back.v.offset = value.v.offset
            /\ back.v.substring = value.v.substring
            /\ back.v.metadata = value.v.metadata

\* a request whose offset is out of bounds and whose substring needs
\* escaping has been serialized and read back
C8_Witness ==
    /\ back # NotYet
    /\ value.type = "input"
    /\ value.v.offset >= Len(value.v.pdf_bytes)
    /\ Len(value.v.pdf_bytes) > 1
    /\ value.v.substring = <<92, 34>>
    /\ Len(wire) > Len(to_string_input([value.v EXCEPT !.substring = <<97, 97>>]))

(***************************************************************************)
(* Claims about the zkproof program, checked under SpecAccount.            *)
(***************************************************************************)
\* C9: in every reachable state of the account, verified implies that the
\* stored proof_data has between 32 and 1024 bytes, and right after a
\* successful prove verified is false.
C9_VerifiedProofLength ==
    proof_account.initialized =>
        /\ proof_account.verified =>
            (Len(proof_account.proof_data) >= 32 /\ Len(proof_account.proof_data) <= 1024)
        /\ (last.op = "prove" /\ last.result = "Ok") => ~proof_account.verified

\* the account is verified with a proof of the largest size, after a
\* finalize
C9_Witness ==
    /\ proof_account.initialized
    /\ proof_account.verified
    /\ Len(proof_account.proof_data) = 1024
    /\ last.op = "finalize" /\ last.result = "Ok"

\* the program's own error codes
ProgramErrors == {"Unauthorized", "EmptyProofData", "ProofTooLarge", "NoProofData"}

\* C10: prove and finalize by a signer other than the stored authority fail
\* with Unauthorized whatever else is wrong; a failing prove or finalize
\* leaves authority, verified and proof_data unchanged; the authority set by
\* initialize never changes.
C10_FailuresChangeNothing ==
    [][/\ (/\ proof_account.initialized
           /\ last'.op \in {"prove", "finalize"}
           /\ last'.signer # proof_account.authority)
              => last'.result = "Unauthorized"
       /\ (last'.op \in {"prove", "finalize"} /\ last'.result \in ProgramErrors)
              => proof_account' = proof_account
       /\ proof_account.initialized
              => (/\ proof_account'.initialized
                  /\ proof_account'.authority = proof_account.authority)
      ]_vars

\* a stranger's prove with empty data was refused as Unauthorized on a
\* verified account, which stayed verified
C10_Witness ==
    /\ proof_account.initialized
    /\ proof_account.verified
    /\ last.op = "prove"
    /\ last.signer # proof_account.authority
    /\ last.data = <<>>
    /\ last.result = "Unauthorized"

====
